---- MODULE Spec2Model ----
(***************************************************************************)
(* Model of server.py: the batch_predict endpoint, its source adapters,    *)
(* the TTL cache and the signal engine.                                    *)
(*                                                                         *)
(* Numbers.  Prices and ATR are integers in units of 1e-9, so that the     *)
(* ATR floor 1e-8 is 10 units and 1.2*atr, 2.4*atr are exact for the ATR   *)
(* values used.  Confidence is in thousandths.  Time is in whole seconds.  *)
(*                                                                         *)
(* Data frames.  A candle series is abstracted to the facts the pipeline   *)
(* branches on: its row count, the number of rows whose OHLC is not        *)
(* numeric, the indicator values of its last row, and whether its OHLCV     *)
(* columns are already float columns.  pandas_ta is taken as installed, so *)
(* compute_features runs its primary path.                                 *)
(***************************************************************************)
EXTENDS Integers, Sequences, FiniteSets, TLC

VARIABLES
    cfg,        \* process configuration read at import: credentials, model, metadata
    now,        \* datetime.now(timezone.utc), seconds
    cache,      \* _CACHE: key -> [ts, payload]
    req,        \* the BatchRequest being served
    pc,         \* position of the handler: "idle", "loop", "await", "done"
    idx,        \* 1-based position of the for loop in timeframes
    tfs,        \* the local `timeframes` of the handler
    results,    \* the local `results` list
    resp,       \* the response to the request, once it is made
    served,     \* requests accepted so far
    advances,   \* clock advances so far
    pending,    \* the adapter call suspended at its network await
    effects,    \* cache reads/writes, network calls, file reads of this request
    hist,       \* history: key -> the latest cache_set on it
    lastGet,    \* history: the latest cache_get and what it returned
    path,       \* history: per produced Prediction, how it was resolved
    bg,         \* a second request's adapter call suspended at its network await
    call        \* a direct call of a pure function: its arguments and its result

vars == <<cfg, now, cache, req, pc, idx, tfs, results, resp, served, advances,
          pending, effects, hist, lastGet, path, bg, call>>

---------------------------------------------------------------------------
(* Bounds of the model *)

\* longest timeframes list of a request
MaxTfs == 2
\* requests served in one behaviour
MaxRequests == 3
\* clock advances in one behaviour
MaxAdvances == 2
\* longest 1-minute series given to aggregate_from_1m
MaxCandles == 3

---------------------------------------------------------------------------
(* Program constants *)

DEFAULT_LIMIT == 300
CACHE_TTL_SECONDS == 15
SUPPORTED_TFS == {"1m", "5m", "15m", "1h", "4h"}
\* len(df) < 50 gate of batch_predict
MIN_ROWS == 50
\* str(e)[:120]
ERR_MSG_MAX == 120
\* rows pandas_ta needs before ema50 is defined
WARMUP_TA == 50
\* max(..., 1e-8) in units of 1e-9
ATR_FLOOR == 10

None == [none |-> TRUE]

---------------------------------------------------------------------------
(* str helpers *)

LOWER == "abcdefghijklmnopqrstuvwxyz"
UPPER == "ABCDEFGHIJKLMNOPQRSTUVWXYZ"

CharAt(s, k) == SubSeq(s, k, k)

UpperChar(c) ==
    IF \E k \in 1..26 : CharAt(LOWER, k) = c
    THEN CharAt(UPPER, CHOOSE k \in 1..26 : CharAt(LOWER, k) = c)
    ELSE c

RECURSIVE Upper(_)
Upper(s) == IF Len(s) = 0 THEN "" ELSE UpperChar(CharAt(s, 1)) \o Upper(SubSeq(s, 2, Len(s)))

StartsWith(s, p) == Len(s) >= Len(p) /\ SubSeq(s, 1, Len(p)) = p

Contains(s, t) == \E k \in 1..(Len(s) - Len(t) + 1) : SubSeq(s, k, k + Len(t) - 1) = t

RECURSIVE Strip(_)
Strip(s) ==
    IF Len(s) = 0 THEN s
    ELSE IF CharAt(s, 1) = " " THEN Strip(SubSeq(s, 2, Len(s)))
    ELSE IF CharAt(s, Len(s)) = " " THEN Strip(SubSeq(s, 1, Len(s) - 1))
    ELSE s

\* s.replace(c, "") for a one-character c
RECURSIVE RemoveChar(_, _)
RemoveChar(s, c) ==
    IF Len(s) = 0 THEN ""
    ELSE (IF CharAt(s, 1) = c THEN "" ELSE CharAt(s, 1)) \o RemoveChar(SubSeq(s, 2, Len(s)), c)

\* s.replace(":", "_")
RECURSIVE ColonToUnderscore(_)
ColonToUnderscore(s) ==
    IF Len(s) = 0 THEN ""
    ELSE (IF CharAt(s, 1) = ":" THEN "_" ELSE CharAt(s, 1)) \o ColonToUnderscore(SubSeq(s, 2, Len(s)))

\* symbol.split(":", 1)[1] if ":" in symbol else symbol
AfterColon(s) ==
    IF Contains(s, ":")
    THEN LET k == CHOOSE k \in 1..Len(s) :
                    CharAt(s, k) = ":" /\ \A j \in 1..(k - 1) : CharAt(s, j) # ":"
         IN SubSeq(s, k + 1, Len(s))
    ELSE s

\* a message that is not cut
TruncateNothing(msg) == msg

\* str(e)[:120]
Truncate(msg) == IF Len(msg) > ERR_MSG_MAX THEN SubSeq(msg, 1, ERR_MSG_MAX) ELSE msg

---------------------------------------------------------------------------
(* Inputs: feature rows, candle series, requests, upstream answers *)

\* the last row compute_features derives from a series, once warmed up
RowUp   == [close |-> 1000, ema8 |-> 990,  ema21 |-> 980,  ema50 |-> 900,
            rsi14 |-> 60, atr14 |-> 50, std2 |-> 20]
RowDown == [close |-> 1000, ema8 |-> 900,  ema21 |-> 950,  ema50 |-> 1000,
            rsi14 |-> 40, atr14 |-> 50, std2 |-> 20]
RowFlat == [close |-> 1000, ema8 |-> 1000, ema21 |-> 1000, ema50 |-> 1000,
            rsi14 |-> 50, atr14 |-> 0,  std2 |-> 0]

\* a series as it is delivered (JSON values, CSV text): n rows, `bad` of them
\* with an OHLC value that is missing or not a number, columns not yet float
Frame(n, bad, last) == [n |-> n, bad |-> bad, last |-> last, dtype |-> "object"]

\* df[col].astype(float) / float(...) of the adapters: float columns, values
\* that are missing stay NaN
AsFloat(df) == [df EXCEPT !.dtype = "float64"]

\* a coercion that also drops the rows it could not convert
ToNumericDropsRows(df) == [df EXCEPT !.dtype = "float64", !.n = df.n - df.bad, !.bad = 0]

\* pd.to_numeric(df[col], errors="coerce") on the five columns: float
\* columns, values that are not numbers become NaN
ToNumeric(df) == [df EXCEPT !.dtype = "float64"]

\* what an upstream provider or a local file can hold
Frames == { Frame(0, 0, RowFlat), Frame(49, 0, RowUp), Frame(50, 1, RowDown),
            Frame(300, 0, RowUp) }

\* the answers of an upstream HTTP call that are not a usable payload
Failures == {"timeout", "non200", "ratelimit", "malformed_json", "malformed_shape"}

Answers == [kind : Failures] \cup [kind : {"ok"}, frame : Frames]

\* a client-supplied CandleWindow: column arrays, possibly of unequal length
ClientWindows == { [kind |-> "frame", frame |-> Frame(60, 0, RowFlat)],
                   [kind |-> "frame", frame |-> Frame(10, 1, RowUp)],
                   [kind |-> "ragged"] }

Symbols == {"BINANCE:BTCUSDT", "OANDA:XAU_USD", "XAUUSD", "model"}

TfInputs == {"1h", "4h", "2h"}

\* req.limit: 0 stands for a limit that is absent or zero
Limits == {0}

TfLists == UNION { [1..k -> TfInputs] : k \in 0..MaxTfs }

\* req.candles: absent, or a window for one timeframe
CandleMaps == {None} \cup { [tf |-> tf, window |-> w] : tf \in {"1h"}, w \in ClientWindows }

Requests == [symbol : Symbols, timeframes : TfLists, candles : CandleMaps, limit : Limits]

\* what the loaded classifier does on one call
ModelOutputs == [kind : {"raises"}] \cup
                [kind : {"probs"}, label : {"long", "short", "none"}, confidence : {700}]

\* META["features"]: the derived columns, a list naming a column that is
\* not derived, or an empty list
MetaFeatures == {"derived", "missing_column", "empty"}

\* MODEL and META are both None when the artifacts are not loaded
Configs == { c \in [OANDA_TOKEN : BOOLEAN, ALPHA_VANTAGE_KEY : BOOLEAN, MODEL : BOOLEAN,
                    metaFeatures : MetaFeatures] :
             ~c.MODEL => c.metaFeatures = "derived" }

\* the local CSV found by os.path.exists (which of the four candidate names),
\* and what pd.read_csv makes of it
LocalFiles == [kind : {"missing"}] \cup
              [kind : {"unreadable"}, which : {1}] \cup
              [kind : {"file"}, which : {1, 4},
               frame : {Frame(18000, 0, RowUp), Frame(49, 0, RowDown)}]

---------------------------------------------------------------------------
(* cache_get / cache_set *)

\* an expiry that already drops an entry aged exactly the TTL
ExpiredAtTtl(ts, t) == t - ts >= CACHE_TTL_SECONDS

Expired(ts, t) == t - ts > CACHE_TTL_SECONDS

\* cache_get: the payload (or None) and the cache after the lazy eviction
CacheGet(c, key, t) ==
    IF key \notin DOMAIN c THEN [payload |-> None, cache |-> c]
    ELSE IF Expired(c[key].ts, t)
         THEN [payload |-> None, cache |-> [k \in DOMAIN c \ {key} |-> c[k]]]
         ELSE [payload |-> c[key].payload, cache |-> c]

CacheSet(c, key, payload, t) ==
    [k \in DOMAIN c \cup {key} |-> IF k = key THEN [ts |-> t, payload |-> payload] ELSE c[k]]

\* the handler's `df[col] = pd.to_numeric(...)` on the object an adapter
\* returned: that object is the one held under `key`, so the assignment is
\* made to the cached series itself.  It is reached only for a non-empty df.
CoerceShared(c, key, df) ==
    IF df.n = 0 \/ key \notin DOMAIN c THEN c
    ELSE [c EXCEPT ![key].payload = ToNumeric(@)]

---------------------------------------------------------------------------
(* Prediction and the signal engine *)

Prediction(tf, label, confidence, entry, sl, tp, source) ==
    [timeframe |-> tf, label |-> label, confidence |-> confidence,
     entry |-> entry, sl |-> sl, tp |-> tp, source |-> source]

Min(a, b) == IF a < b THEN a ELSE b
Max(a, b) == IF a > b THEN a ELSE b
Abs(a) == IF a < 0 THEN -a ELSE a

\* rows left by dropna(subset=[open, high, low, close])
ValidRows(df) == df.n - df.bad

\* compute_features: TRUE when the derived frame has at least one row
HasFeatures(df) == ValidRows(df) >= 3 /\ ValidRows(df) >= WARMUP_TA

\* the 1.2 / 2.4 ATR levels shared by both strategies
StopLoss(label, last_close, atr) ==
    IF label = "long" THEN last_close - (12 * atr) \div 10
    ELSE IF label = "short" THEN last_close + (12 * atr) \div 10 ELSE 0

TakeProfit(label, last_close, atr) ==
    IF label = "long" THEN last_close + (24 * atr) \div 10
    ELSE IF label = "short" THEN last_close - (24 * atr) \div 10 ELSE 0

\* an ATR taken as it is
AtrUnfloored(last) == last.atr14

\* atr14 of the last row, floored when it is zero
Atr(last) == IF last.atr14 = 0 THEN Max(last.std2, ATR_FLOOR) ELSE last.atr14

HeuristicLabel(last) ==
    IF last.ema8 > last.ema21 /\ last.ema21 > last.ema50 /\ last.rsi14 > 50 THEN "long"
    ELSE IF last.ema8 < last.ema21 /\ last.ema21 < last.ema50 /\ last.rsi14 < 50 THEN "short"
    ELSE "none"

HeuristicConfidence(label, last) ==
    IF label = "none" THEN 500
    ELSE Min(950, 550 + (5000 * Abs(last.ema8 - last.ema50))
                          \div (IF last.ema50 # 0 THEN last.ema50 ELSE 1)
                      + (300 * Abs(last.rsi14 - 50)) \div 50)

\* heuristic_signal_from_df, as the dict it returns (no timeframe, no source)
heuristic_signal_from_df(df) ==
    IF ValidRows(df) = 0
    THEN [label |-> "none", confidence |-> 0, entry |-> 0, sl |-> 0, tp |-> 0]
    ELSE IF ~HasFeatures(df)
    THEN [label |-> "none", confidence |-> 0, entry |-> df.last.close, sl |-> 0, tp |-> 0]
    ELSE LET last  == df.last
             label == HeuristicLabel(last)
         IN [label |-> label, confidence |-> HeuristicConfidence(label, last),
             entry |-> last.close,
             sl |-> StopLoss(label, last.close, Atr(last)),
             tp |-> TakeProfit(label, last.close, Atr(last))]

\* an exception leaving a function, with str(e)
Raise(msg) == [raised |-> TRUE, msg |-> msg]
Return(v) == [raised |-> FALSE, value |-> v]

\* only predict_proba is inside the try of model_predict_from_df
VectorizeRaises(c) == c.metaFeatures = "missing_column"

\* model_predict_from_df: the dict, or the exception that leaves it
model_predict_from_df(df, c, out) ==
    IF ~c.MODEL THEN Return(heuristic_signal_from_df(df))
    ELSE IF ~HasFeatures(df) THEN Return(heuristic_signal_from_df(df))
    ELSE IF c.metaFeatures = "empty" THEN Return(heuristic_signal_from_df(df))
    ELSE IF VectorizeRaises(c) THEN Raise("\"['feat_x'] not in index\"")
    ELSE IF out.kind = "raises" THEN Return(heuristic_signal_from_df(df))
    ELSE Return([label |-> out.label, confidence |-> out.confidence,
                 entry |-> df.last.close,
                 sl |-> StopLoss(out.label, df.last.close, Atr(df.last)),
                 tp |-> TakeProfit(out.label, df.last.close, Atr(df.last))])


---------------------------------------------------------------------------
(* Series transformations *)

\* df.dropna(subset=["open","high","low","close"])
DropNa(df) == [df EXCEPT !.n = df.n - df.bad, !.bad = 0]

\* resample(...).agg(...).dropna() of a contiguous series into buckets of
\* `factor` rows: one row per non-empty bucket
Resample(df, factor) ==
    [df EXCEPT !.n = (ValidRows(df) + factor - 1) \div factor, !.bad = 0]

\* df.tail(limit) when len(df) > limit
TailRows(df, limit) ==
    IF df.n > limit THEN [df EXCEPT !.n = limit, !.bad = Min(df.bad, limit)] ELSE df

Minutes(tf) ==
    CASE tf = "5m" -> 5 [] tf = "15m" -> 15 [] tf = "1h" -> 60 [] tf = "4h" -> 240

aggregate_from_1m(df_1m, target_tf) ==
    IF target_tf = "1m" THEN Return(df_1m)
    ELSE IF target_tf \notin {"5m", "15m", "1h", "4h"}
    THEN Raise("unsupported tf for aggregation: " \o target_tf)
    ELSE Return(Resample(df_1m, Minutes(target_tf)))

\* candles_to_df: pd.DataFrame raises on columns of unequal length
candles_to_df(window) ==
    IF window.kind = "ragged" THEN Raise("All arrays must be of the same length")
    ELSE Return(DropNa(ToNumeric(window.frame)))

---------------------------------------------------------------------------
(* Adapter keys and answers *)

MsgTimeout == "timed out"
MsgStatus == "Client error '429 Too Many Requests' for url "
             \o "'https://api.binance.com/api/v3/klines?symbol=BTCUSDT&interval=1m&limit=300' "
             \o "For more information check: https://developer.mozilla.org/en-US/docs/Web/HTTP/Status/429"
MsgJson == "Expecting value: line 1 column 1 (char 0)"
MsgShape == "'list' object has no attribute 'keys'"
MsgColumns == "12 columns passed, passed data had 2 columns"
MsgCsv == "Missing column provided to 'parse_dates': 'timestamp'"

BinanceKey(symbol, interval, limit) ==
    "binance::" \o symbol \o "::" \o interval \o "::" \o ToString(limit)

\* fetch_binance_klines after the await: nothing is caught
BinanceAfter(ans) ==
    CASE ans.kind = "timeout" -> Raise(MsgTimeout)
      [] ans.kind \in {"non200", "ratelimit"} -> Raise(MsgStatus)
      [] ans.kind = "malformed_json" -> Raise(MsgJson)
      [] ans.kind = "malformed_shape" -> Raise(MsgColumns)
      [] ans.kind = "ok" -> Return(AsFloat(ans.frame))

OandaGranularity(tf) ==
    CASE tf = "1m" -> "M1" [] tf = "5m" -> "M5" [] tf = "15m" -> "M15"
      [] tf = "1h" -> "H1" [] tf = "4h" -> "H4"

OandaInstrument(symbol) ==
    LET inst_raw   == AfterColon(symbol)
        inst_clean == Upper(RemoveChar(RemoveChar(inst_raw, "-"), "/"))
    IN IF Contains(inst_raw, "_") THEN Upper(inst_raw)
       ELSE IF Len(inst_clean) >= 6
            THEN SubSeq(inst_clean, 1, 3) \o "_" \o SubSeq(inst_clean, 4, Len(inst_clean))
            ELSE inst_clean

OandaKey(symbol, granularity, count) ==
    "oanda::" \o OandaInstrument(symbol) \o "::" \o OandaGranularity(granularity)
        \o "::" \o ToString(count)

\* fetch_oanda_candles after the await: every failure is caught and logged
OandaAfter(ans) ==
    IF ans.kind \in Failures THEN Return(None)
    ELSE IF ans.frame.n = 0 THEN Return(None)
    ELSE Return(AsFloat(ans.frame))

AlphaInstrument(symbol) == Upper(RemoveChar(AfterColon(symbol), "_"))

AlphaInterval(interval) ==
    CASE interval = "1m" -> "1min" [] interval = "5m" -> "5min"
      [] interval = "15m" -> "15min" [] interval = "1h" -> "60min"
      [] OTHER -> "60min"

AlphaKey(symbol, interval, limit) ==
    LET inst == AlphaInstrument(symbol)
    IN "av::" \o SubSeq(inst, 1, 3) \o "_" \o SubSeq(inst, 4, Len(inst)) \o "::"
         \o AlphaInterval(interval) \o "::" \o ToString(limit)

\* fetch_alpha_vantage_candles after the await: the HTTP call and r.json()
\* are inside the try, the inspection of the decoded payload is not
AlphaAfter(ans, interval, limit) ==
    CASE ans.kind \in {"timeout", "non200", "malformed_json", "ratelimit"} -> Return(None)
      [] ans.kind = "malformed_shape" -> Raise(MsgShape)
      [] ans.kind = "ok" ->
           IF ans.frame.n = 0 THEN Return(None)
           ELSE Return(TailRows(IF interval = "4h"
                                THEN Resample(Resample(AsFloat(ans.frame), 1), 4)
                                ELSE AsFloat(ans.frame), limit))

LocalCsvName(symbol, which) ==
    LET s == ColonToUnderscore(symbol)
    IN CASE which = 1 -> "historical_" \o s \o "_1m.csv"
         [] which = 2 -> s \o "_1m.csv"
         [] which = 3 -> "historical_" \o s \o ".csv"
         [] which = 4 -> s \o ".csv"

---------------------------------------------------------------------------
(* batch_predict *)

NoData(tf) == Prediction(tf, "none", 0, 0, 0, 0, "no-data")

\* the except clause of the per-timeframe try
ErrorPrediction(tf, msg) == Prediction(tf, "none", 0, 0, 0, 0, "error:" \o Truncate(msg))

is_binance(symbol) == StartsWith(Upper(symbol), "BINANCE:")
is_oanda(symbol) == StartsWith(Upper(symbol), "OANDA:")
is_alpha_candidate(symbol) ==
    Contains(Upper(symbol), "XAU") \/ StartsWith(Upper(symbol), "ALPHA:")

\* a gate that forgets the row count
UsesModelAnyLength(df, c) == c.MODEL

\* the strategy gate: the model only with at least 50 rows
UsesModel(df, c) == c.MODEL /\ ~(df.n < MIN_ROWS)

\* a tag that forgets the adapter
SourceTagHeuristic(df, src, c) == IF UsesModel(df, c) THEN "model" ELSE "heuristic"

\* the source of a Prediction of the heuristic or model strategy
SourceTag(df, src, c) == IF UsesModel(df, c) THEN "model" ELSE src

\* from "validate df" to the append, for a resolved df (or None) and src
Predict(tf, df0, src, c, out) ==
    IF df0 = None \/ df0.n = 0 THEN NoData(tf)
    ELSE LET df == DropNa(ToNumeric(df0))
         IN IF ~UsesModel(df, c)
            THEN LET res == heuristic_signal_from_df(df)
                 IN Prediction(tf, res.label, res.confidence, res.entry, res.sl, res.tp,
                               SourceTag(df, src, c))
            ELSE LET r == model_predict_from_df(df, c, out)
                 IN IF r.raised THEN ErrorPrediction(tf, r.msg)
                    ELSE Prediction(tf, r.value.label, r.value.confidence, r.value.entry,
                                    r.value.sl, r.value.tp, SourceTag(df, src, c))

\* one fetch result (a Return or a Raise) turned into the timeframe's Prediction
PredictFetched(tf, fetched, srcIfSome, c, out) ==
    IF fetched.raised THEN ErrorPrediction(tf, fetched.msg)
    ELSE Predict(tf, fetched.value,
                 IF fetched.value = None THEN "no-data" ELSE srcIfSome, c, out)


---------------------------------------------------------------------------
(* State machine *)

Effect(op, adapter) == [op |-> op, adapter |-> adapter]

\* the exception, if any, that reaches the except clause of the iteration
Raised(fetched, c, out) ==
    IF fetched.raised THEN fetched
    ELSE IF fetched.value = None \/ fetched.value.n = 0 THEN Return(None)
    ELSE IF ~UsesModel(DropNa(ToNumeric(fetched.value)), c) THEN Return(None)
    ELSE model_predict_from_df(DropNa(ToNumeric(fetched.value)), c, out)

\* the history record of one produced Prediction: the option of the chain
\* that resolved it, the upstream answer, the series obtained, and the step
\* that raised with its message
PathRec(option, upstream, fetched, c, out) ==
    [option |-> option, upstream |-> upstream,
     frame |-> IF fetched.raised THEN None ELSE fetched.value,
     raisedIn |-> IF fetched.raised THEN "resolve"
                  ELSE IF Raised(fetched, c, out).raised THEN "signal" ELSE "none",
     msg |-> IF Raised(fetched, c, out).raised THEN Raised(fetched, c, out).msg ELSE ""]

\* the history record of one cache_set: the value as it was stored, when,
\* and the timeframe the adapter was called with
HistSet(h, key, payload, t, tf) ==
    [k \in DOMAIN h \cup {key} |->
        IF k = key THEN [ts |-> t, payload |-> payload, tf |-> tf] ELSE h[k]]

\* the history record of one cache_get
GetRec(key, t, payload) ==
    [key |-> key, at |-> t, payload |-> payload, tf |-> tfs[idx],
     set |-> IF key \in DOMAIN hist THEN hist[key] ELSE None]

EmptyMap == [k \in {} |-> None]

\* the classifier is called only when the model strategy gets as far as
\* predict_proba; otherwise its behaviour is immaterial
CallsModel(fetched, c) ==
    /\ ~fetched.raised
    /\ fetched.value # None
    /\ fetched.value.n # 0
    /\ UsesModel(DropNa(ToNumeric(fetched.value)), c)
    /\ c.metaFeatures = "derived"

OutputsFor(fetched, c) ==
    IF CallsModel(fetched, c) THEN ModelOutputs ELSE {[kind |-> "raises"]}

\* a process that has served nothing yet
InitHandler ==
    /\ now = 0
    /\ cache = EmptyMap
    /\ req = None
    /\ pc = "idle"
    /\ idx = 0
    /\ tfs = <<>>
    /\ results = <<>>
    /\ resp = None
    /\ served = 0
    /\ advances = 0
    /\ pending = None
    /\ effects = {}
    /\ hist = EmptyMap
    /\ lastGet = None
    /\ path = <<>>
    /\ bg = None

Init ==
    /\ cfg \in Configs
    /\ InitHandler
    /\ call = None

\* the handler without the default for an empty list
TimeframesNoDefault(r) == r.timeframes

\* req.timeframes or ["1m"]
Timeframes(r) == IF Len(r.timeframes) = 0 THEN <<"1m">> ELSE r.timeframes

\* a validation that looks at the first timeframe only
RejectedFirstOnly(timeframes) ==
    Len(timeframes) > 0 /\ timeframes[1] \notin SUPPORTED_TFS

Rejected(timeframes) == \E k \in 1..Len(timeframes) : timeframes[k] \notin SUPPORTED_TFS

\* batch_predict up to the for loop: symbol, timeframes, the 400, limit and
\* the three symbol flags
Accept(r) ==
    LET symbol == Strip(r.symbol)
    IN /\ req' = [symbol |-> symbol,
                  timeframes |-> r.timeframes,
                  candles |-> r.candles,
                  limit |-> IF r.limit = 0 THEN DEFAULT_LIMIT ELSE r.limit,
                  is_binance |-> is_binance(symbol),
                  is_oanda |-> is_oanda(symbol),
                  is_alpha_candidate |-> is_alpha_candidate(symbol)]
       /\ tfs' = Timeframes(r)
       /\ IF Rejected(Timeframes(r))
          THEN /\ resp' = [status |-> 400, predictions |-> <<>>]
               /\ pc' = "done"
               /\ idx' = 0
          ELSE /\ resp' = None
               /\ pc' = "loop"
               /\ idx' = 1
       /\ served' = served + 1
       /\ results' = <<>>
       /\ path' = <<>>
       /\ effects' = {}
       /\ pending' = None
       /\ lastGet' = None
       /\ UNCHANGED <<bg, call, cfg, now, cache, hist, advances>>

\* a request reaches a fresh process
Submit ==
    /\ pc = "idle"
    /\ \E r \in Requests : Accept(r)

InLoop == pc = "loop" /\ idx <= Len(tfs)

HasClientCandles(r, tf) == r.candles # None /\ r.candles.tf = tf

\* appends the timeframe's Prediction and moves to the next timeframe
Emit(pred, rec) ==
    /\ results' = Append(results, pred)
    /\ path' = Append(path, rec)
    /\ idx' = idx + 1
    /\ pc' = "loop"
    /\ pending' = None

\* the rest of the iteration once the fetch has returned or raised
Finish(option, upstream, fetched, srcIfSome) ==
    \E out \in OutputsFor(fetched, cfg) :
        Emit(PredictFetched(tfs[idx], fetched, srcIfSome, cfg, out),
             PathRec(option, upstream, fetched, cfg, out))

\* 1) client supplied candles for the TF
TfClient ==
    /\ InLoop
    /\ HasClientCandles(req, tfs[idx])
    /\ Finish("client", "none", candles_to_df(req.candles.window), "client-candles")
    /\ UNCHANGED <<bg, call, cfg, now, cache, req, tfs, resp, served, advances, effects, hist, lastGet>>

\* an adapter up to its network await: the cache lookup, then either the
\* cached payload is returned or the call is suspended
Lookup(adapter, key, srcIfSome) ==
    LET got == CacheGet(cache, key, now)
    IN /\ lastGet' = GetRec(key, now, got.payload)
       /\ IF got.payload # None
          THEN /\ cache' = CoerceShared(got.cache, key, got.payload)
               /\ effects' = effects \cup {Effect("cache_get", adapter)}
               /\ Finish(adapter, "hit", Return(got.payload), srcIfSome)
          ELSE /\ cache' = got.cache
               /\ effects' = effects \cup {Effect("cache_get", adapter), Effect("net", adapter)}
               /\ pc' = "await"
               /\ pending' = [adapter |-> adapter, key |-> key]
               /\ UNCHANGED <<results, path, idx>>
       /\ UNCHANGED <<bg, call, cfg, now, req, tfs, resp, served, advances, hist>>

\* 2) Binance auto-fetch
TfBinance ==
    /\ InLoop
    /\ ~HasClientCandles(req, tfs[idx])
    /\ req.is_binance
    /\ Lookup("binance", BinanceKey(req.symbol, tfs[idx], req.limit), "binance-rest")

\* an adapter that does not look at the credential first
OandaNeverSkips(c) == FALSE

\* fetch_oanda_candles before any cache or network use
OandaSkips(c) == ~c.OANDA_TOKEN

\* 3) OANDA auto-fetch
TfOanda ==
    /\ InLoop
    /\ ~HasClientCandles(req, tfs[idx])
    /\ ~req.is_binance
    /\ req.is_oanda
    /\ IF OandaSkips(cfg)
       THEN /\ Finish("oanda", "skipped", Return(None), "oanda-rest")
            /\ UNCHANGED <<bg, call, cfg, now, cache, req, tfs, resp, served, advances,
                           effects, hist, lastGet>>
       ELSE Lookup("oanda", OandaKey(req.symbol, tfs[idx], req.limit), "oanda-rest")

\* 4) AlphaVantage fallback
TfAlpha ==
    /\ InLoop
    /\ ~HasClientCandles(req, tfs[idx])
    /\ ~req.is_binance
    /\ ~req.is_oanda
    /\ req.is_alpha_candidate /\ cfg.ALPHA_VANTAGE_KEY
    /\ IF Len(AlphaInstrument(req.symbol)) < 6
       THEN /\ Finish("alpha", "skipped", Return(None), "alpha-vantage")
            /\ UNCHANGED <<bg, call, cfg, now, cache, req, tfs, resp, served, advances,
                           effects, hist, lastGet>>
       ELSE Lookup("alpha", AlphaKey(req.symbol, tfs[idx], req.limit), "alpha-vantage")

\* pd.read_csv, the sort and the aggregation of the local file
ReadLocal(file, tf) ==
    IF file.kind = "unreadable" THEN Raise(MsgCsv) ELSE aggregate_from_1m(file.frame, tf)

\* 5) local CSV fallback, 6) the no-data Prediction
TfLocal ==
    /\ InLoop
    /\ ~HasClientCandles(req, tfs[idx])
    /\ ~req.is_binance
    /\ ~req.is_oanda
    /\ ~(req.is_alpha_candidate /\ cfg.ALPHA_VANTAGE_KEY)
    /\ \E file \in LocalFiles :
         IF file.kind = "missing"
         THEN /\ Emit(NoData(tfs[idx]),
                      PathRec("local", "missing", Return(None), cfg, [kind |-> "raises"]))
              /\ effects' = effects
         ELSE /\ Finish("local", file.kind, ReadLocal(file, tfs[idx]),
                        "local-csv:" \o LocalCsvName(req.symbol, file.which))
              /\ effects' = effects \cup {Effect("file", "local")}
    /\ UNCHANGED <<bg, call, cfg, now, cache, req, tfs, resp, served, advances, hist, lastGet>>

\* what the suspended adapter makes of the upstream answer
After(adapter, ans, tf, limit) ==
    CASE adapter = "binance" -> BinanceAfter(ans)
      [] adapter = "oanda" -> OandaAfter(ans)
      [] adapter = "alpha" -> AlphaAfter(ans, tf, limit)

SrcOf(adapter) ==
    CASE adapter = "binance" -> "binance-rest"
      [] adapter = "oanda" -> "oanda-rest"
      [] adapter = "alpha" -> "alpha-vantage"

\* the adapter resumes on the upstream answer, caches the series it built
\* and returns; the handler finishes the timeframe
Resume(ans) ==
    LET fetched == After(pending.adapter, ans, tfs[idx], req.limit)
        stores  == ~fetched.raised /\ fetched.value # None
    IN /\ Finish(pending.adapter, ans.kind, fetched, SrcOf(pending.adapter))
       /\ IF stores
          THEN /\ cache' = CoerceShared(CacheSet(cache, pending.key, fetched.value, now),
                                        pending.key, fetched.value)
               /\ hist' = HistSet(hist, pending.key, fetched.value, now, tfs[idx])
               /\ effects' = effects \cup {Effect("cache_set", pending.adapter)}
          ELSE UNCHANGED <<cache, hist, effects>>
       /\ UNCHANGED <<bg, call, cfg, now, req, tfs, resp, served, advances, lastGet>>

Reply ==
    /\ pc = "await"
    /\ \E ans \in Answers : Resume(ans)

\* return {"predictions": results}
Respond ==
    /\ pc = "loop"
    /\ idx > Len(tfs)
    /\ resp' = [status |-> 200, predictions |-> results]
    /\ pc' = "done"
    /\ UNCHANGED <<bg, call, cfg, now, cache, req, idx, tfs, results, served, advances, pending,
                   effects, hist, lastGet, path>>

Next ==
    \/ Submit
    \/ TfClient
    \/ TfBinance
    \/ TfOanda
    \/ TfAlpha
    \/ TfLocal
    \/ Reply
    \/ Respond

\* one request served by a fresh process
Spec == Init /\ [][Next]_vars

---------------------------------------------------------------------------
(* The cache over time: successive single-timeframe requests to the remote *)
(* adapters of a process that holds every credential, with the clock       *)
(* advancing between and during the fetches.                               *)

FetchSymbols == {"BINANCE:BTCUSDT", "OANDA:XAU_USD", "XAUUSD"}

FetchRequests == [symbol : FetchSymbols, timeframes : {<<"1h">>, <<"4h">>},
                  candles : {None}, limit : Limits]

FetchAnswers == { [kind |-> "timeout"],
                  [kind |-> "ok", frame |-> Frame(300, 0, RowUp)],
                  [kind |-> "ok", frame |-> Frame(49, 0, RowUp)] }

InitFetch ==
    /\ Init
    /\ cfg = [OANDA_TOKEN |-> TRUE, ALPHA_VANTAGE_KEY |-> TRUE, MODEL |-> FALSE,
              metaFeatures |-> "derived"]

\* datetime.now moves on.  It is read only against a cached timestamp, so
\* it is kept still while the cache is empty.
Advance ==
    /\ pc \in {"done", "await"}
    /\ cache # EmptyMap
    /\ advances < MaxAdvances
    /\ advances' = advances + 1
    /\ \E d \in {1, CACHE_TTL_SECONDS} : now' = now + d
    /\ UNCHANGED <<bg, call, cfg, cache, req, pc, idx, tfs, results, resp, served, pending,
                   effects, hist, lastGet, path>>

\* the next request of the process; the requests of one behaviour are for
\* one symbol
SubmitFetch ==
    /\ pc \in {"idle", "done"}
    /\ served < MaxRequests
    /\ \E r \in FetchRequests :
         /\ req # None => r.symbol = req.symbol
         /\ Accept(r)

ReplyFetch ==
    /\ pc = "await"
    /\ \E ans \in FetchAnswers : Resume(ans)

NextFetch ==
    \/ Advance
    \/ SubmitFetch
    \/ TfBinance
    \/ TfOanda
    \/ TfAlpha
    \/ ReplyFetch
    \/ Respond

SpecFetch == InitFetch /\ [][NextFetch]_vars

---------------------------------------------------------------------------
(* Requests that overlap.  The handlers run on one event loop, so a second  *)
(* request runs only while the first is suspended at a network await or has *)
(* been answered; its cache reads and writes are those of the same adapter  *)
(* code.  Its Prediction is not followed.                                   *)

FetchAdapter(symbol) ==
    IF is_binance(symbol) THEN "binance" ELSE IF is_oanda(symbol) THEN "oanda" ELSE "alpha"

FetchKey(symbol, tf, limit) ==
    CASE FetchAdapter(symbol) = "binance" -> BinanceKey(symbol, tf, limit)
      [] FetchAdapter(symbol) = "oanda" -> OandaKey(symbol, tf, limit)
      [] FetchAdapter(symbol) = "alpha" -> AlphaKey(symbol, tf, limit)

\* upstream answers, one of them a series with a row that has a missing value
ShareAnswers == { [kind |-> "timeout"],
                  [kind |-> "ok", frame |-> Frame(300, 0, RowUp)],
                  [kind |-> "ok", frame |-> Frame(50, 1, RowDown)] }

\* requests to an adapter with one key per timeframe and to the adapter whose
\* 1h and 4h calls use one key
ShareRequests == { r \in FetchRequests : r.symbol \in {"BINANCE:BTCUSDT", "XAUUSD"} }

SubmitShare ==
    /\ pc \in {"idle", "done"}
    /\ served < MaxRequests
    /\ \E r \in ShareRequests :
         /\ req # None => r.symbol = req.symbol
         /\ Accept(r)

\* the second request's adapter up to its network await
OtherLookup ==
    /\ pc \in {"await", "done"}
    /\ bg = None
    /\ served < MaxRequests
    /\ \E r \in ShareRequests :
         LET symbol == Strip(r.symbol)
             tf     == Timeframes(r)[1]
             limit  == IF r.limit = 0 THEN DEFAULT_LIMIT ELSE r.limit
             key    == FetchKey(symbol, tf, limit)
             got    == CacheGet(cache, key, now)
         IN /\ r.symbol = req.symbol
            /\ IF got.payload # None
               THEN /\ cache' = CoerceShared(got.cache, key, got.payload)
                    /\ bg' = None
               ELSE /\ cache' = got.cache
                    /\ bg' = [adapter |-> FetchAdapter(symbol), key |-> key,
                              tf |-> tf, limit |-> limit]
    /\ served' = served + 1
    /\ UNCHANGED <<cfg, now, req, pc, idx, tfs, results, resp, advances, pending,
                   effects, hist, lastGet, path, call>>

\* the second request's adapter resumes, caches its series and returns it
\* to its handler, which coerces it
OtherReply ==
    /\ pc \in {"await", "done"}
    /\ bg # None
    /\ \E ans \in ShareAnswers :
         LET fetched == After(bg.adapter, ans, bg.tf, bg.limit)
             stores  == ~fetched.raised /\ fetched.value # None
         IN IF stores
            THEN /\ cache' = CoerceShared(CacheSet(cache, bg.key, fetched.value, now),
                                          bg.key, fetched.value)
                 /\ hist' = HistSet(hist, bg.key, fetched.value, now, bg.tf)
            ELSE UNCHANGED <<cache, hist>>
    /\ bg' = None
    /\ UNCHANGED <<cfg, now, req, pc, idx, tfs, results, resp, served, advances, pending,
                   effects, lastGet, path, call>>

ReplyShare ==
    /\ pc = "await"
    /\ \E ans \in ShareAnswers : Resume(ans)

NextShare ==
    \/ Advance
    \/ SubmitShare
    \/ TfBinance
    \/ TfAlpha
    \/ ReplyShare
    \/ Respond
    \/ OtherLookup
    \/ OtherReply

SpecShare == InitFetch /\ [][NextShare]_vars

---------------------------------------------------------------------------
(* aggregate_from_1m on the candles themselves.  Timestamps are minutes     *)
(* since midnight UTC of the first day; prices and volumes are naturals.    *)

\* NaN of a float column (prices and volumes are never negative)
NaN == -1

Candle(ts, o, h, l, c, v) ==
    [timestamp |-> ts, open |-> o, high |-> h, low |-> l, close |-> c, volume |-> v]

\* left edge of the resample bin holding ts; bins start at midnight
BinOf(ts, size) == (ts \div size) * size

\* the bins resample lays out: every bin from the first row's to the last row's
Bins(rows, size) ==
    LET lo == BinOf(rows[1].timestamp, size)
        hi == BinOf(rows[Len(rows)].timestamp, size)
    IN [k \in 1..((hi - lo) \div size + 1) |-> lo + (k - 1) * size]

\* the rows of one bin, in input order
InBin(rows, b, size) == SelectSeq(rows, LAMBDA r : BinOf(r.timestamp, size) = b)

ColumnOf(m, col) == { m[i][col] : i \in 1..Len(m) }

\* .first() of a bin
ResampleFirst(m, col) == IF Len(m) = 0 THEN NaN ELSE m[1][col]

\* a close taken from the first row of the bin
ResampleLastAsFirst(m, col) == ResampleFirst(m, col)

\* .last() of a bin
ResampleLast(m, col) == IF Len(m) = 0 THEN NaN ELSE m[Len(m)][col]

\* .max() of a bin
ResampleMax(m, col) ==
    IF Len(m) = 0 THEN NaN
    ELSE CHOOSE x \in ColumnOf(m, col) : \A y \in ColumnOf(m, col) : x >= y

\* .min() of a bin
ResampleMin(m, col) ==
    IF Len(m) = 0 THEN NaN
    ELSE CHOOSE x \in ColumnOf(m, col) : \A y \in ColumnOf(m, col) : x <= y

RECURSIVE ResampleSum(_, _)
\* .sum() of a bin: 0 for an empty bin
ResampleSum(m, col) ==
    IF Len(m) = 0 THEN 0 ELSE m[1][col] + ResampleSum(SubSeq(m, 2, Len(m)), col)

\* pd.concat([o,h,l,c,v], axis=1): one row per bin laid out
ConcatBins(rows, size) ==
    [k \in 1..Len(Bins(rows, size)) |->
        LET b == Bins(rows, size)[k]
            m == InBin(rows, b, size)
        IN Candle(b, ResampleFirst(m, "open"), ResampleMax(m, "high"),
                  ResampleMin(m, "low"), ResampleLast(m, "close"),
                  ResampleSum(m, "volume"))]

\* .dropna(): rows with a NaN in any column go
DropNaRows(rows) ==
    SelectSeq(rows, LAMBDA r : /\ r.open # NaN /\ r.high # NaN /\ r.low # NaN
                               /\ r.close # NaN /\ r.volume # NaN)

\* aggregate_from_1m on a non-empty series with a datetime timestamp column
aggregate_from_1m_rows(df_1m, target_tf) ==
    IF target_tf = "1m" THEN Return(df_1m)
    ELSE IF target_tf \notin {"5m", "15m", "1h", "4h"}
    THEN Raise("unsupported tf for aggregation: " \o target_tf)
    ELSE Return(DropNaRows(ConcatBins(df_1m, Minutes(target_tf))))

\* timestamps of the input candles: both ends of buckets of every target
CandleTimes == {0, 4, 5, 15, 59, 60, 240, 485}

\* open, high, low, close, volume of an input candle
CandleValues == { <<1, 3, 1, 2, 1>>, <<2, 2, 0, 1, 2>>, <<5, 6, 4, 4, 0>> }

\* time-ordered 1-minute series, every value defined
MinuteSeries ==
    UNION { { s \in [1..k -> { Candle(t, x[1], x[2], x[3], x[4], x[5]) :
                                 t \in CandleTimes, x \in CandleValues }] :
              \A i \in 1..(k - 1) : s[i].timestamp < s[i + 1].timestamp }
            : k \in 1..MaxCandles }

AggregateTargets == {"1m", "5m", "15m", "1h", "4h", "2h"}

\* a caller about to aggregate a series
InitAggregate ==
    /\ cfg = [OANDA_TOKEN |-> FALSE, ALPHA_VANTAGE_KEY |-> FALSE, MODEL |-> FALSE,
              metaFeatures |-> "derived"]
    /\ InitHandler
    /\ call \in [fn : {"aggregate_from_1m"}, df_1m : MinuteSeries,
                 target_tf : AggregateTargets, result : {None}]

\* the call returns or raises
CallAggregate ==
    /\ call # None
    /\ call.fn = "aggregate_from_1m"
    /\ call.result = None
    /\ call' = [call EXCEPT !.result = aggregate_from_1m_rows(call.df_1m, call.target_tf)]
    /\ UNCHANGED <<cfg, now, cache, req, pc, idx, tfs, results, resp, served, advances,
                   pending, effects, hist, lastGet, path, bg>>

NextAggregate == CallAggregate

SpecAggregate == InitAggregate /\ [][NextAggregate]_vars

---------------------------------------------------------------------------
(* heuristic_signal_from_df on bounded Feature Rows *)

\* last rows of compute_features: every ordering of the three EMAs, RSI on
\* both sides of 50 and at 50, ATR zero and positive
FeatureRows ==
    [close : {10, 1000}, ema8 : {900, 1000, 1100}, ema21 : {900, 1000, 1100},
     ema50 : {900, 1000, 1100}, rsi14 : {40, 50, 60}, atr14 : {0, 50}, std2 : {0, 20}]

\* a caller about to ask the heuristic about a warmed-up series
InitSignal ==
    /\ cfg = [OANDA_TOKEN |-> FALSE, ALPHA_VANTAGE_KEY |-> FALSE, MODEL |-> FALSE,
              metaFeatures |-> "derived"]
    /\ InitHandler
    /\ call \in [fn : {"heuristic_signal_from_df"},
                 df : { AsFloat(Frame(60, 0, last)) : last \in FeatureRows },
                 result : {None}]

\* the call returns
CallHeuristic ==
    /\ call # None
    /\ call.fn = "heuristic_signal_from_df"
    /\ call.result = None
    /\ call' = [call EXCEPT !.result = heuristic_signal_from_df(call.df)]
    /\ UNCHANGED <<cfg, now, cache, req, pc, idx, tfs, results, resp, served, advances,
                   pending, effects, hist, lastGet, path, bg>>

NextSignal == CallHeuristic

SpecSignal == InitSignal /\ [][NextSignal]_vars

---------------------------------------------------------------------------
(* Claims *)

Answered == resp # None /\ resp.status = 200
Refused == resp # None /\ resp.status = 400
Supported == {"1m", "5m", "15m", "1h", "4h"}
Produced == 1..Len(results)
IsErrorTag(source) == Len(source) >= 6 /\ SubSeq(source, 1, 6) = "error:"

\* C1, as stated: the predictions of an accepted request are as many as the
\* timeframes of the request, the i-th for the i-th requested timeframe.
C1_OnePerRequested ==
    Answered =>
        /\ Len(resp.predictions) = Len(req.timeframes)
        /\ \A i \in 1..Len(req.timeframes) :
             resp.predictions[i].timeframe = req.timeframes[i]

\* C1, amended: as stated for a non-empty timeframes list; an empty list is
\* served as ["1m"] and answered with exactly one Prediction, for 1m.
C1_OnePerServed ==
    Answered =>
        LET want == IF Len(req.timeframes) = 0 THEN <<"1m">> ELSE req.timeframes
        IN /\ Len(resp.predictions) = Len(want)
           /\ \A i \in 1..Len(want) : resp.predictions[i].timeframe = want[i]

\* a two-timeframe request with a repeat whose first timeframe raised
C1_Witness ==
    /\ Answered
    /\ Len(req.timeframes) = 2
    /\ req.timeframes[1] = req.timeframes[2]
    /\ path[1].raisedIn = "resolve"
    /\ path[2].raisedIn = "none"

\* C2: a timeframe whose processing raised has the zero-valued none
\* Prediction tagged error: plus at most 120 characters of the message, and
\* the request is still answered with a Prediction for every timeframe.
C2_ErrorContained ==
    /\ \A i \in Produced :
         path[i].raisedIn # "none" =>
            /\ results[i] = [timeframe |-> tfs[i], label |-> "none", confidence |-> 0,
                             entry |-> 0, sl |-> 0, tp |-> 0,
                             source |-> results[i].source]
            /\ IsErrorTag(results[i].source)
            /\ Len(results[i].source) <= 6 + 120
            /\ results[i].source =
                 "error:" \o SubSeq(path[i].msg, 1, Min(120, Len(path[i].msg)))
    /\ (pc = "done" /\ ~Refused) => (Answered /\ Len(resp.predictions) = Len(tfs))

\* the first timeframe raised with a message longer than 120 characters and
\* the second was still resolved to a series
C2_Witness ==
    /\ Answered
    /\ Len(tfs) = 2
    /\ path[1].raisedIn = "resolve"
    /\ Len(path[1].msg) > 120
    /\ path[2].raisedIn = "none"
    /\ path[2].frame # None

\* C3: a request naming any unsupported timeframe is refused with the 400
\* and nothing else happens: no cache read or write, no fetch, no file
\* read, no Prediction.
C3_RefusedBeforeWork ==
    (req # None /\ \E k \in 1..Len(req.timeframes) : req.timeframes[k] \notin Supported) =>
        /\ Refused
        /\ pc = "done"
        /\ effects = {}
        /\ results = <<>>
        /\ resp.predictions = <<>>
        /\ lastGet = None
        /\ pending = None
        /\ cache = EmptyMap

\* the unsupported timeframe comes after a supported one
C3_Witness ==
    /\ Refused
    /\ Len(req.timeframes) = 2
    /\ req.timeframes[1] \in Supported
    /\ req.timeframes[2] \notin Supported

\* C4: a cache_get on a key last set at time T to v returns v up to T+15 and
\* absent after T+15; a key never set is absent; an absent result leaves no
\* entry under the key.
C4_CacheTtl ==
    lastGet # None =>
        /\ lastGet.set = None => lastGet.payload = None
        /\ lastGet.set # None =>
             /\ lastGet.at <= lastGet.set.ts + 15 => lastGet.payload = lastGet.set.payload
             /\ lastGet.at > lastGet.set.ts + 15 => lastGet.payload = None
        /\ (lastGet.payload = None /\ pc = "await") => lastGet.key \notin DOMAIN cache

\* a read exactly 15 s after the set returns the value
C4_Witness ==
    /\ lastGet # None
    /\ lastGet.set # None
    /\ lastGet.at = lastGet.set.ts + 15
    /\ lastGet.payload = lastGet.set.payload

\* a read 16 s after the set finds the key absent and the entry gone
C4_WitnessStale ==
    /\ lastGet # None
    /\ lastGet.set # None
    /\ lastGet.at = lastGet.set.ts + 16
    /\ lastGet.payload = None
    /\ lastGet.key \notin DOMAIN cache


NoClientCandles(i) == ~(req.candles # None /\ req.candles.tf = tfs[i])
BrokerTagged == req # None /\ StartsWith(req.symbol, "OANDA:")
ExchangeTagged == req # None /\ StartsWith(req.symbol, "BINANCE:")
MacroCandidate == req # None /\ Contains(req.symbol, "XAU")
Labels == {"long", "short", "none"}

\* C5 (the claim; the code contradicts it): a timeframe of a Broker-REST
\* tagged symbol resolved without the broker credential is resolved by the
\* next applicable option, Macro-FX-REST when the symbol matches and its
\* credential is present, Local-File otherwise.
C5_DegradesToNextOption ==
    \A i \in Produced :
        (BrokerTagged /\ ~cfg.OANDA_TOKEN /\ NoClientCandles(i)) =>
            path[i].option =
                (IF MacroCandidate /\ cfg.ALPHA_VANTAGE_KEY THEN "alpha" ELSE "local")

\* C6 (the claim; the code contradicts it): after an upstream timeout,
\* non-200, rate-limit marker or malformed payload the adapter returns
\* absent instead of raising and the Prediction is not tagged error:.
C6_UpstreamFailureIsNoData ==
    \A i \in Produced :
        path[i].upstream \in Failures =>
            /\ path[i].raisedIn # "resolve"
            /\ ~IsErrorTag(results[i].source)

\* C7 (the claim; the code contradicts it): with a model loaded, a metadata
\* feature column missing from the derived features makes the model
\* strategy return the heuristic result; nothing is raised and the
\* Prediction is not tagged error:.
C7_VectorizeFailureFallsBack ==
    \A i \in Produced :
        (/\ cfg.MODEL
         /\ cfg.metaFeatures = "missing_column"
         /\ path[i].frame # None
         /\ ValidRows(path[i].frame) >= 50) =>
            LET h == heuristic_signal_from_df(DropNa(path[i].frame))
            IN /\ path[i].raisedIn = "none"
               /\ ~IsErrorTag(results[i].source)
               /\ results[i].label = h.label
               /\ results[i].entry = h.entry
               /\ results[i].sl = h.sl
               /\ results[i].tp = h.tp

ShortSeries(i) == path[i].frame # None /\ path[i].frame.n - path[i].frame.bad < 50

\* C8, as stated: the source of the Prediction of a series with fewer than
\* 50 valid rows neither equals nor contains the model tag.
C8_NeverContainsModelTag ==
    \A i \in Produced :
        ShortSeries(i) =>
            /\ results[i].source # "model"
            /\ ~Contains(results[i].source, "model")

AdapterTag(i) ==
    CASE path[i].option = "client" -> "client-candles"
      [] path[i].option = "binance" -> "binance-rest"
      [] path[i].option = "oanda" -> "oanda-rest"
      [] path[i].option = "alpha" -> "alpha-vantage"
      [] path[i].option = "local" -> "local-csv:"

\* C8, amended: the Prediction of a series with fewer than 50 valid rows is
\* the heuristic strategy's and its source is never the model tag: it is
\* the tag of the adapter that supplied the series, which for Local-File
\* ends in a file name derived from the symbol (no-data for an empty
\* series).
C8_ShortSeriesHeuristic ==
    \A i \in Produced :
        ShortSeries(i) =>
            LET h == heuristic_signal_from_df(DropNa(path[i].frame))
                source == results[i].source
            IN /\ source # "model"
               /\ IF path[i].frame.n = 0 THEN source = "no-data"
                  ELSE IF path[i].option = "local"
                       THEN StartsWith(source, "local-csv:")
                            /\ ~Contains(SubSeq(source, 1, 10), "model")
                       ELSE source = AdapterTag(i)
               /\ results[i].label = h.label
               /\ results[i].confidence = h.confidence
               /\ results[i].entry = h.entry
               /\ results[i].sl = h.sl
               /\ results[i].tp = h.tp

\* a model is loaded and the exchange adapter supplied 50 rows of which one
\* is dropped
C8_Witness ==
    /\ cfg.MODEL
    /\ cfg.metaFeatures = "derived"
    /\ \E i \in Produced :
         /\ path[i].option = "binance"
         /\ path[i].frame # None
         /\ path[i].frame.n = 50
         /\ path[i].frame.bad = 1
         /\ results[i].source = "binance-rest"

ExchangeSeries(i) ==
    /\ ExchangeTagged
    /\ NoClientCandles(i)
    /\ path[i].option = "binance"
    /\ path[i].frame # None
    /\ path[i].frame.n > 0
    /\ path[i].frame.bad = 0

\* C9, as stated (for metadata whose feature columns are all derived): a
\* non-empty valid series from the exchange adapter gives a Prediction
\* with a label among long, short, none and a source containing
\* binance-rest, whether or not a model is loaded.
C9_AlwaysExchangeTag ==
    \A i \in Produced :
        (ExchangeSeries(i) /\ cfg.metaFeatures = "derived") =>
            /\ results[i].label \in Labels
            /\ Contains(results[i].source, "binance-rest")

\* C9, amended: the label is among long, short, none and the source is
\* binance-rest when no model is loaded or the series has fewer than 50
\* rows; with a model loaded and at least 50 rows the source is the model
\* tag (an error: tag when the model strategy raises, C7), not the
\* exchange tag.
C9_ExchangeTagUnlessModel ==
    \A i \in Produced :
        ExchangeSeries(i) =>
            IF cfg.MODEL /\ path[i].frame.n >= 50
            THEN \/ results[i].source = "model"
                 \/ IsErrorTag(results[i].source) /\ cfg.metaFeatures = "missing_column"
            ELSE /\ results[i].source = "binance-rest"
                 /\ results[i].label \in Labels

\* no model: two timeframes, each resolved to 300 candles of the exchange
C9_Witness ==
    /\ Answered
    /\ ~cfg.MODEL
    /\ Len(results) = 2
    /\ \A i \in Produced :
         /\ ExchangeSeries(i)
         /\ path[i].frame.n = 300
         /\ results[i].source = "binance-rest"
         /\ results[i].label = "long"

\* C10: for a Broker-REST tagged symbol with no broker credential no
\* Prediction has source oanda-rest, and the broker adapter reads no cache
\* entry and makes no network call.
C10_NoBrokerWithoutCredential ==
    (BrokerTagged /\ ~cfg.OANDA_TOKEN) =>
        /\ \A i \in Produced : results[i].source # "oanda-rest"
        /\ \A e \in effects : e.adapter # "oanda"
        /\ lastGet = None
        /\ pending = None
        /\ pc # "await"
        /\ cache = EmptyMap

\* both timeframes of such a request went to the broker adapter and ended
\* as no-data
C10_Witness ==
    /\ Answered
    /\ BrokerTagged
    /\ ~cfg.OANDA_TOKEN
    /\ Len(results) = 2
    /\ \A i \in Produced : path[i].option = "oanda" /\ results[i].source = "no-data"


\* sum of the volumes of the rows at positions I
RECURSIVE VolumeOver(_, _)
VolumeOver(rows, I) ==
    IF I = {} THEN 0
    ELSE LET i == CHOOSE i \in I : TRUE
         IN rows[i].volume + VolumeOver(rows, I \ {i})

BucketMinutes(tf) == CASE tf = "5m" -> 5 [] tf = "15m" -> 15 [] tf = "1h" -> 60 [] tf = "4h" -> 240

Aggregated == call # None /\ call.fn = "aggregate_from_1m" /\ call.result # None

\* C11: aggregate_from_1m gives one candle per bucket holding an input candle
\* and none for an empty bucket, in ascending order, with open of the first
\* input, max high, min low, close of the last input and the volume sum; an
\* unsupported target raises; target 1m returns an equal series.
C11_AggregationCorrect ==
    Aggregated =>
        LET rows == call.df_1m
            tf   == call.target_tf
            r    == call.result
        IN IF tf = "1m" THEN ~r.raised /\ r.value = rows
           ELSE IF tf \notin {"5m", "15m", "1h", "4h"}
           THEN r.raised /\ r.msg = "unsupported tf for aggregation: " \o tf
           ELSE /\ ~r.raised
                /\ LET out  == r.value
                       size == BucketMinutes(tf)
                       bucket(i) == rows[i].timestamp - (rows[i].timestamp % size)
                       occupied == { bucket(i) : i \in 1..Len(rows) }
                   IN /\ Len(out) = Cardinality(occupied)
                      /\ { out[j].timestamp : j \in 1..Len(out) } = occupied
                      /\ \A j \in 1..(Len(out) - 1) : out[j].timestamp < out[j + 1].timestamp
                      /\ \A j \in 1..Len(out) :
                           LET I == { i \in 1..Len(rows) : bucket(i) = out[j].timestamp }
                               first == CHOOSE i \in I : \A k \in I : i <= k
                               last  == CHOOSE i \in I : \A k \in I : i >= k
                           IN /\ out[j].open = rows[first].open
                              /\ out[j].close = rows[last].close
                              /\ \A i \in I : out[j].high >= rows[i].high
                              /\ \E i \in I : out[j].high = rows[i].high
                              /\ \A i \in I : out[j].low <= rows[i].low
                              /\ \E i \in I : out[j].low = rows[i].low
                              /\ out[j].volume = VolumeOver(rows, I)

\* three candles aggregated to 15m: two in the first bucket, then empty
\* buckets, then one candle; two candles come out
C11_Witness ==
    /\ Aggregated
    /\ call.target_tf = "15m"
    /\ Len(call.df_1m) = 3
    /\ call.df_1m[2].timestamp < 15
    /\ call.df_1m[3].timestamp >= 45
    /\ call.df_1m[1].close # call.df_1m[2].close
    /\ ~call.result.raised
    /\ Len(call.result.value) = 2

\* an unsupported target raised
C11_WitnessUnsupported ==
    /\ Aggregated
    /\ call.target_tf = "2h"
    /\ call.result.raised


Signalled == call # None /\ call.fn = "heuristic_signal_from_df" /\ call.result # None

\* C12: on a last Feature Row the heuristic says long exactly when
\* ema8 > ema21 > ema50 and rsi14 > 50, short exactly when ema8 < ema21 < ema50
\* and rsi14 < 50, none otherwise; entry is the last close; with the ATR made
\* strictly positive, long has sl = entry - 1.2 ATR < entry < tp = entry + 2.4 ATR,
\* short the mirror, none has sl = tp = 0.
C12_LabelAndLevels ==
    Signalled =>
        LET f    == call.df.last
            r    == call.result
            up   == f.ema8 > f.ema21 /\ f.ema21 > f.ema50 /\ f.rsi14 > 50
            down == f.ema8 < f.ema21 /\ f.ema21 < f.ema50 /\ f.rsi14 < 50
            A    == IF f.atr14 # 0 THEN f.atr14 ELSE IF f.std2 > 10 THEN f.std2 ELSE 10
        IN /\ r.label \in {"long", "short", "none"}
           /\ r.label = "long" <=> up
           /\ r.label = "short" <=> down
           /\ r.entry = f.close
           /\ A > 0
           /\ r.label = "long" =>
                /\ 10 * r.sl = 10 * r.entry - 12 * A
                /\ 10 * r.tp = 10 * r.entry + 24 * A
                /\ r.sl < r.entry /\ r.entry < r.tp
           /\ r.label = "short" =>
                /\ 10 * r.sl = 10 * r.entry + 12 * A
                /\ 10 * r.tp = 10 * r.entry - 24 * A
                /\ r.tp < r.entry /\ r.entry < r.sl
           /\ r.label = "none" => r.sl = 0 /\ r.tp = 0

\* a long on a row whose ATR is zero and is floored
C12_Witness ==
    /\ Signalled
    /\ call.df.last.atr14 = 0
    /\ call.df.last.std2 = 0
    /\ call.result.label = "long"
    /\ call.result.sl = call.result.entry - 12

\* a short, and a none with ordered EMAs but RSI at 50
C12_WitnessShort ==
    /\ Signalled
    /\ call.result.label = "short"
    /\ call.result.tp < call.result.entry

C12_WitnessNone ==
    /\ Signalled
    /\ call.df.last.ema8 > call.df.last.ema21
    /\ call.df.last.ema21 > call.df.last.ema50
    /\ call.df.last.rsi14 = 50
    /\ call.result.label = "none"


\* C13: the series held under a key is the value the latest cache_set stored
\* there, with its fetch time, whatever requests have run or overlapped since;
\* a cache hit returns that value, so the coercion, row dropping and volume
\* fill of one timeframe are not seen by another.
C13_CachedSeriesUnchanged ==
    /\ \A k \in DOMAIN cache :
         /\ k \in DOMAIN hist
         /\ cache[k].payload = hist[k].payload
         /\ cache[k].ts = hist[k].ts
    /\ (lastGet # None /\ lastGet.payload # None) => lastGet.payload = lastGet.set.payload

\* a cached series with a row to drop was returned on a hit and processed,
\* after the entry had been written by an overlapping request, and the entry
\* still holds that row
C13_Witness ==
    /\ pc = "done"
    /\ Len(path) = 1
    /\ path[1].upstream = "hit"
    /\ path[1].frame.bad = 1
    /\ lastGet.key \in DOMAIN cache
    /\ cache[lastGet.key].payload.bad = 1
    /\ served = 3

\* overlap: the first request is still suspended on its miss while the
\* second request has stored a series under the same key
C13_WitnessOverlap ==
    /\ pc = "await"
    /\ bg = None
    /\ lastGet.payload = None
    /\ pending.key \in DOMAIN cache
    /\ cache[pending.key].payload.bad = 1


MacroHit == lastGet # None /\ lastGet.payload # None /\ StartsWith(lastGet.key, "av::")

\* C14: for the Macro-FX-REST adapter a cache hit returns a series that was
\* built for the timeframe now requested: a 4h fetch never gets the 60-minute
\* series of a 1h fetch, nor a 1h fetch the 4-hour series of a 4h fetch.
C14_TimeframesNeverShare ==
    MacroHit => lastGet.set.tf = lastGet.tf

====
